---- MODULE Spec2Model ----
(***************************************************************************)
(* The Gemini command-line client of src/terminallynx/main.py: the command *)
(* loop of main() and the request/retry wrapper GeminiBrowser.gemini_query.*)
(* Strings are TLA+ strings; Python's None is the empty tuple and a string *)
(* value s is the one-element tuple <<s>>.                                 *)
(***************************************************************************)
EXTENDS Integers, Sequences, FiniteSets, TLC

(* ------------------------------ bounds --------------------------------- *)

\* No further prompt is read once history holds this many exchanges.
MaxHist == 2

(* ------------------------- Python values ------------------------------- *)

None == <<>>

Some(s) == <<s>>

\* Python truthiness of an optional string: None and "" are both false.
Truthy(v) == v # None /\ v[1] # ""

(* ------------------------- string functions ---------------------------- *)

IsSpace(c) == c \in {" ", "\t", "\n"}

RECURSIVE LStrip(_)
LStrip(s) == IF Len(s) > 0 /\ IsSpace(SubSeq(s, 1, 1)) THEN LStrip(SubSeq(s, 2, Len(s))) ELSE s

RECURSIVE RStrip(_)
RStrip(s) == IF Len(s) > 0 /\ IsSpace(SubSeq(s, Len(s), Len(s))) THEN RStrip(SubSeq(s, 1, Len(s) - 1)) ELSE s

\* str.strip()
Strip(s) == RStrip(LStrip(s))

UpperAlpha == "ABCDEFGHIJKLMNOPQRSTUVWXYZ"

LowerAlpha == "abcdefghijklmnopqrstuvwxyz"

LowerChar(c) ==
    IF \E i \in 1..Len(UpperAlpha) : SubSeq(UpperAlpha, i, i) = c
    THEN LET i == CHOOSE j \in 1..Len(UpperAlpha) : SubSeq(UpperAlpha, j, j) = c
         IN  SubSeq(LowerAlpha, i, i)
    ELSE c

\* str.lower()
RECURSIVE Lower(_)
Lower(s) == IF Len(s) = 0 THEN s ELSE LowerChar(SubSeq(s, 1, 1)) \o Lower(SubSeq(s, 2, Len(s)))

\* str.startswith(p)
StartsWith(s, p) == Len(s) >= Len(p) /\ SubSeq(s, 1, Len(p)) = p

\* Length of the longest prefix of s that holds no whitespace.
RECURSIVE TokenLen(_)
TokenLen(s) == IF Len(s) = 0 \/ IsSpace(SubSeq(s, 1, 1)) THEN 0 ELSE 1 + TokenLen(SubSeq(s, 2, Len(s)))

\* str.split(maxsplit=1): the first whitespace-delimited token and, when
\* anything but whitespace follows it, the remainder after that whitespace.
Split1(s) ==
    LET t == LStrip(s)
        n == TokenLen(t)
        rest == LStrip(SubSeq(t, n + 1, Len(t)))
    IN  IF Len(t) = 0 THEN <<>>
        ELSE IF Len(rest) = 0 THEN <<SubSeq(t, 1, n)>>
        ELSE <<SubSeq(t, 1, n), rest>>

(* --------------------------- request client ---------------------------- *)

\* gemini_query(self, prompt, retries=3, delay=2)
Retries == 3

Delay == 2

supported_models == {"gemini-1.5-flash", "gemini-1.5-pro"}

\* The sentinel of line 53, without its leading warning-sign character.
Sentinel == "No valid response from Gemini."

\* The path output["candidates"][0]["content"]["parts"][0]["text"].
Path == <<"candidates", 0, "content", "parts", 0, "text">>

IsIndexStep(i) == i \in {2, 5}

\* Text fields a well-formed body may carry.
Texts == {" a ", "  "}

\* A response body as response.json() and the path walk see it: json says
\* whether the body decodes as JSON; depth is how many steps of Path resolve;
\* end says what stops the walk: "text" (all six steps resolve to the string
\* text), "missing" (step depth+1 names a key or index that its container
\* lacks) or "badtype" (the value reached after depth steps has the wrong
\* type: not subscriptable by the next step, or at depth 6 not a string).
JsonBodies ==
    [json : {TRUE}, depth : {Len(Path)}, end : {"text"}, text : Texts]
    \cup [json : {TRUE}, depth : 0..(Len(Path) - 1), end : {"missing", "badtype"}, text : {""}]
    \cup [json : {TRUE}, depth : {Len(Path)}, end : {"badtype"}, text : {""}]

NotJson == [json |-> FALSE, depth |-> 0, end |-> "missing", text |-> ""]

Bodies == JsonBodies \cup {NotJson}

ErrorStatuses == {302, 400, 499, 500, 599}

\* What requests.post yields: a raised RequestException (exc), or a response
\* with a status code and a body.
Responses ==
    {[exc |-> TRUE, status |-> 0, body |-> NotJson]}
    \cup [exc : {FALSE}, status : {200}, body : Bodies]
    \cup [exc : {FALSE}, status : ErrorStatuses, body : {NotJson}]

Return(v) == [kind |-> "return", val |-> v]

Raise(e) == [kind |-> "raise", val |-> Some(e)]

Continue == [kind |-> "continue", val |-> None]

\* Line 51: the walk along Path from step i on, then .strip().
RECURSIVE Walk(_, _)
Walk(body, i) ==
    IF i > Len(Path)
    THEN IF body.end = "text" THEN Return(Some(Strip(body.text))) ELSE Raise("AttributeError")
    ELSE IF body.depth >= i THEN Walk(body, i + 1)
    ELSE IF body.end = "missing"
         THEN Raise(IF IsIndexStep(i) THEN "IndexError" ELSE "KeyError")
         ELSE Raise("TypeError")

\* ParseOutput with an except clause that names KeyError alone.
ParseOutput_KeyErrorOnly(body) ==
    LET r == Walk(body, 1)
    IN  IF r.kind = "raise" /\ r.val[1] = "KeyError"
        THEN Return(Some(Sentinel))
        ELSE r

\* Lines 50-53: try the walk; KeyError and IndexError give the sentinel.
ParseOutput(body) ==
    LET r == Walk(body, 1)
    IN  IF r.kind = "raise" /\ r.val[1] \in {"KeyError", "IndexError"}
        THEN Return(Some(Sentinel))
        ELSE r

\* ExceptRequestException giving up one attempt early.
ExceptRequestException_Early(attempt_, retries_) ==
    IF attempt_ < retries_ - 1 THEN Continue ELSE Return(None)

\* Lines 60-65: the handler of requests.exceptions.RequestException.
ExceptRequestException(attempt_, retries_) ==
    IF attempt_ < retries_ THEN Continue ELSE Return(None)

\* ErrorStatus that never retries.
ErrorStatus_NoRetry(status, attempt_, retries_) == Return(None)

\* ErrorStatus that takes every status from 400 up for a server error.
ErrorStatus_RetryClient(status, attempt_, retries_) ==
    IF 400 <= status /\ status < 600 /\ attempt_ < retries_ THEN Continue ELSE Return(None)

\* Lines 54-59: a status other than 200.
ErrorStatus(status, attempt_, retries_) ==
    IF 500 <= status /\ status < 600 /\ attempt_ < retries_ THEN Continue ELSE Return(None)

\* Line 49: response.json() on a body that is not JSON raises the library's
\* JSONDecodeError. Whether that class derives from RequestException depends
\* on the installed requests release (it does from 2.27 on); derives says
\* which one this process runs with.
JsonDecodeError(derives, attempt_, retries_) ==
    IF derives THEN ExceptRequestException(attempt_, retries_) ELSE Raise("JSONDecodeError")

\* Lines 46-65: one pass of the body of the retry loop, for the response resp.
AttemptOutcome(resp, attempt_, retries_, derives) ==
    IF resp.exc THEN ExceptRequestException(attempt_, retries_)
    ELSE IF resp.status = 200
         THEN IF resp.body.json THEN ParseOutput(resp.body)
              ELSE JsonDecodeError(derives, attempt_, retries_)
         ELSE ErrorStatus(resp.status, attempt_, retries_)

\* AttemptOutcome for every response, attempt number and library release.
Outcomes ==
    [resp \in Responses, a \in 1..Retries, d \in BOOLEAN |->
        AttemptOutcome(resp, a, Retries, d)]

\* Lines 55 and 61: what one pass of the retry loop prints, given what the
\* console showed before it.
Printed(resp, shown, derives) ==
    IF resp.exc \/ (resp.status = 200 /\ ~resp.body.json /\ derives) THEN "Request failed:"
    ELSE IF resp.status # 200 THEN "Error"
    ELSE shown

\* How an attempt ended, as the retry policy classifies it.
Class(resp) ==
    IF resp.exc THEN "transport"
    ELSE IF resp.status = 200 THEN "200"
    ELSE IF 500 <= resp.status /\ resp.status <= 599 THEN "5xx"
    ELSE IF 400 <= resp.status /\ resp.status <= 499 THEN "4xx"
    ELSE "other"

(* ----------------------------- the session ----------------------------- *)

VARIABLES
    model,          \* bot.model
    system_prompt,  \* bot.system_prompt
    last_reply,     \* main: last_reply
    history,        \* main: history, a sequence of <<user_input, reply>>
    files,          \* the file system: file name -> None (absent) or contents
    pc,             \* "prompt": at Prompt.ask; "query": inside the retry loop;
                    \* "exited": after break; "crashed": an exception left main
    user_input,     \* main: user_input, the stripped line last read
    console,        \* the message console.print showed last, by its fixed text
    panels,         \* the exchange panels the last command printed
    attempt,        \* gemini_query: attempt
    derives,        \* whether JSONDecodeError derives from RequestException
    requests,       \* requests.post calls made by the query
    delays,         \* time.sleep calls made by the query
    transient,      \* every attempt the query has retried so far ended in a
                    \* transport failure or a 5xx status
    response,       \* gemini_query: response, the latest one
    reply,          \* how the query ended: Return(v) or Raise(e)
    data,           \* gemini_query: data, the payload the call built
    sent,           \* the json payload of the latest requests.post
    before          \* history and last_reply when the prompt was read

vars == <<model, system_prompt, last_reply, history, files, pc, user_input, console, panels,
          attempt, derives, requests, delays, transient, response, reply, data, sent,
          before>>

session == <<model, system_prompt, last_reply, history>>

query_vars == <<attempt, requests, delays, transient, response, reply, data, sent, before>>

\* The lines Prompt.ask may return.
Lines ==
    {"exit", " QUIT ",
     "/help", "/helpme",
     "/model gemini-1.5-pro", "/model gemini-1.5-flash", "/model gpt-4", "/model",
     "/save out.txt", "/save",
     "/export out.txt", "/export",
     "/history", "/history of Rome",
     "/system Be brief", "/system",
     "/foo", "exit now", "   "}

\* How open(filename, "w") and the writes that follow it may end: "ok",
\* "open" (open raises, the file is untouched) or "write" (a write raises
\* after open truncated the file).
IoOutcomes == {"ok", "open", "write"}

NoResponse == [exc |-> FALSE, status |-> 0, body |-> NotJson]

NoReply == [kind |-> "none", val |-> None]

NoData == [contents |-> <<>>]

\* content with the system block after the prompt block.
content_Appended(prompt, system_prompt_) ==
    IF Truthy(system_prompt_)
    THEN <<prompt>> \o <<"[SYSTEM]: " \o system_prompt_[1]>>
    ELSE <<prompt>>

\* Lines 39-41: the content blocks, each {"parts": [{"text": t}]} given by
\* its text t.
content(prompt, system_prompt_) ==
    IF Truthy(system_prompt_)
    THEN <<"[SYSTEM]: " \o system_prompt_[1]>> \o <<prompt>>
    ELSE <<prompt>>

\* Command matching the command words by equality, not by prefix.
Command_WholeLine(line) ==
    IF Lower(line) \in {"exit", "quit"} THEN "exit"
    ELSE IF line = "/help" THEN "/help"
    ELSE IF StartsWith(line, "/model") THEN "/model"
    ELSE IF StartsWith(line, "/save") THEN "/save"
    ELSE IF StartsWith(line, "/export") THEN "/export"
    ELSE IF line = "/history" THEN "/history"
    ELSE IF StartsWith(line, "/system") THEN "/system"
    ELSE "prompt"

\* Command ending the loop on any line that starts with exit or quit.
Command_ExitPrefix(line) ==
    IF StartsWith(Lower(line), "exit") \/ StartsWith(Lower(line), "quit") THEN "exit"
    ELSE IF StartsWith(line, "/help") THEN "/help"
    ELSE IF StartsWith(line, "/model") THEN "/model"
    ELSE IF StartsWith(line, "/save") THEN "/save"
    ELSE IF StartsWith(line, "/export") THEN "/export"
    ELSE IF StartsWith(line, "/history") THEN "/history"
    ELSE IF StartsWith(line, "/system") THEN "/system"
    ELSE "prompt"

\* Line 79 and the branch conditions of lines 81-152, in their order.
Command(line) ==
    IF Lower(line) \in {"exit", "quit"} THEN "exit"
    ELSE IF StartsWith(line, "/help") THEN "/help"
    ELSE IF StartsWith(line, "/model") THEN "/model"
    ELSE IF StartsWith(line, "/save") THEN "/save"
    ELSE IF StartsWith(line, "/export") THEN "/export"
    ELSE IF StartsWith(line, "/history") THEN "/history"
    ELSE IF StartsWith(line, "/system") THEN "/system"
    ELSE "prompt"

\* Line 79: the stripped form of every line of Lines.
Stripped == [raw \in Lines |-> Strip(raw)]

Inputs == {Stripped[raw] : raw \in Lines}

\* What lines 81-152 compute from user_input: the branch it takes and its
\* split(maxsplit=1), for every stripped line.
Parsed == [u \in Inputs |-> [cmd |-> Command(u), parts |-> Split1(u)]]

\* Lines 106-108 and 122-124: the file name a /save or /export line names.
FileNames ==
    {Strip(Parsed[u].parts[2]) :
        u \in {x \in Inputs : /\ Parsed[x].cmd \in {"/save", "/export"}
                              /\ Len(Parsed[x].parts) = 2}}

\* The lines of Lines that take each branch of lines 81-152.
LinesOf ==
    [cmd \in {"exit", "/help", "/model", "/save", "/export", "/history", "/system", "prompt"} |->
        {raw \in Lines : Parsed[Stripped[raw]].cmd = cmd}]

\* Line 79: Prompt.ask(...).strip() returned the line raw, which takes branch
\* cmd.
Reads(raw, cmd) ==
    /\ pc = "prompt"
    /\ user_input' = Stripped[raw]
    /\ Parsed[user_input'].cmd = cmd

\* Lines 15-21 and 75-76.
Init ==
    /\ model = "gemini-1.5-flash"
    /\ system_prompt = None
    /\ last_reply = None
    /\ history = <<>>
    /\ files = [f \in FileNames |-> None]
    /\ pc = "prompt"
    /\ user_input = ""
    /\ console = "Welcome to the Gemini CLI Browser"
    /\ panels = <<>>
    /\ attempt = 0
    /\ derives \in BOOLEAN
    /\ requests = 0
    /\ delays = 0
    /\ transient = TRUE
    /\ response = NoResponse
    /\ reply = NoReply
    /\ data = NoData
    /\ sent = NoData
    /\ before = <<<<>>, None>>

\* The locals of a finished gemini_query call are gone when the next line is
\* read; its bookkeeping starts afresh.
NoQuery ==
    /\ attempt' = 0
    /\ requests' = 0
    /\ delays' = 0
    /\ transient' = TRUE
    /\ response' = NoResponse
    /\ reply' = NoReply
    /\ data' = NoData
    /\ sent' = NoData
    /\ before' = <<<<>>, None>>

\* Lines 81-83.
Exit ==
    \E raw \in LinesOf["exit"] :
        /\ Reads(raw, "exit")
        /\ pc' = "exited"
        /\ console' = "Goodbye!"
        /\ UNCHANGED <<session, files, derives>>
        /\ NoQuery
        /\ panels' = <<>>

\* Lines 85-96.
Help ==
    \E raw \in LinesOf["/help"] :
        /\ Reads(raw, "/help")
        /\ console' = "Available Commands"
        /\ UNCHANGED <<session, files, pc, derives>>
        /\ NoQuery
        /\ panels' = <<>>

\* set_model without the membership test.
set_model_Unchecked(model_name) ==
    model' = model_name /\ console' = "Switched to model:"

\* Lines 23-30.
set_model(model_name) ==
    IF model_name \in supported_models
    THEN model' = model_name /\ console' = "Switched to model:"
    ELSE model' = model /\ console' = "Unsupported model."

\* Lines 98-103.
Model ==
    \E raw \in LinesOf["/model"] :
        /\ Reads(raw, "/model")
        /\ LET parts == Parsed[user_input'].parts
           IN  IF Len(parts) = 2
               THEN set_model(Strip(parts[2]))
               ELSE model' = model /\ console' = "Usage: /model MODEL_NAME"
        /\ UNCHANGED <<system_prompt, last_reply, history, files, pc, derives>>
        /\ NoQuery
        /\ panels' = <<>>

\* WriteFile opening the file in append mode.
WriteFile_Append(filename, text, io) ==
    /\ files' = CASE io = "ok" ->
                        [files EXCEPT ![filename] =
                            IF @ = None THEN Some(text) ELSE Some(@[1] \o text)]
                  [] OTHER -> files
    /\ console' = IF io = "ok" THEN "Reply saved to" ELSE "Error saving file:"

\* Lines 110-115: open the file for writing and write text to it (text mode
\* writes the text unchanged where the line separator is "\n").
WriteFile(filename, text, io) ==
    /\ files' = CASE io = "ok" -> [files EXCEPT ![filename] = Some(text)]
                  [] io = "open" -> files
                  [] io = "write" -> [files EXCEPT ![filename] = Some("")]
    /\ console' = IF io = "ok" THEN "Reply saved to" ELSE "Error saving file:"

\* Lines 105-119.
Save ==
    \E raw \in LinesOf["/save"], io \in IoOutcomes :
        /\ Reads(raw, "/save")
        /\ LET parts == Parsed[user_input'].parts
           IN  IF Len(parts) = 2
               THEN IF Truthy(last_reply)
                    THEN WriteFile(Strip(parts[2]), last_reply[1], io)
                    ELSE /\ io = "ok"
                         /\ files' = files
                         /\ console' = "No reply to save yet."
               ELSE /\ io = "ok"
                    /\ files' = files
                    /\ console' = "Usage: /save filename.txt"
        /\ UNCHANGED <<session, pc, derives>>
        /\ NoQuery
        /\ panels' = <<>>

\* Line 128: the block written for one exchange.
Block(q, r) == "USER: " \o q \o "\nGEMINI: " \o r \o "\n\n"

\* ExportText writing the latest exchange first.
RECURSIVE ExportText_Reversed(_, _)
ExportText_Reversed(h, n) ==
    IF n = 0 THEN "" ELSE Block(h[n][1], h[n][2]) \o ExportText_Reversed(h, n - 1)

\* Lines 127-128: what the loop over the first n exchanges writes.
RECURSIVE ExportText(_, _)
ExportText(h, n) == IF n = 0 THEN "" ELSE ExportText(h, n - 1) \o Block(h[n][1], h[n][2])

\* Lines 121-133.
Export ==
    \E raw \in LinesOf["/export"], io \in IoOutcomes :
        /\ Reads(raw, "/export")
        /\ LET parts == Parsed[user_input'].parts
           IN  IF Len(parts) = 2
               THEN \/ /\ io = "ok"
                       /\ files' = [files EXCEPT ![Strip(parts[2])] =
                                        Some(ExportText(history, Len(history)))]
                       /\ console' = "Conversation exported to"
                    \/ /\ io = "open"
                       /\ files' = files
                       /\ console' = "Error exporting file:"
                    \/ /\ io = "write"
                       /\ \E n \in 0..(Len(history) - 1) :
                            files' = [files EXCEPT ![Strip(parts[2])] =
                                         Some(ExportText(history, n))]
                       /\ console' = "Error exporting file:"
               ELSE /\ io = "ok"
                    /\ files' = files
                    /\ console' = "Usage: /export filename.txt"
        /\ UNCHANGED <<session, pc, derives>>
        /\ NoQuery
        /\ panels' = <<>>

\* Panels titled from 0, as enumerate(history) would.
Panels_FromZero(h) ==
    [i \in 1..Len(h) |-> [title |-> i - 1, you |-> h[i][1], gemini |-> h[i][2]]]

\* Lines 139-142: the panels printed for history h, each by its title number
\* and the two texts it shows.
Panels(h) ==
    [i \in 1..Len(h) |-> [title |-> i, you |-> h[i][1], gemini |-> h[i][2]]]

\* Lines 135-142.
History ==
    \E raw \in LinesOf["/history"] :
        /\ Reads(raw, "/history")
        /\ console' = IF history = <<>> THEN "No history yet." ELSE "Exchange"
        /\ panels' = Panels(history)
        /\ UNCHANGED <<session, files, pc, derives>>
        /\ NoQuery

\* System clearing the instruction when the line names none.
System_Clears ==
    \E raw \in LinesOf["/system"] :
        /\ Reads(raw, "/system")
        /\ LET parts == Parsed[user_input'].parts
           IN  IF Len(parts) = 2
               THEN /\ system_prompt' = Some(Strip(parts[2]))
                    /\ console' = "System instruction set:"
               ELSE /\ system_prompt' = None
                    /\ console' = "Usage: /system TEXT"
        /\ UNCHANGED <<model, last_reply, history, files, pc, derives>>
        /\ NoQuery
        /\ panels' = <<>>

\* Lines 144-150.
System ==
    \E raw \in LinesOf["/system"] :
        /\ Reads(raw, "/system")
        /\ LET parts == Parsed[user_input'].parts
           IN  IF Len(parts) = 2
               THEN /\ system_prompt' = Some(Strip(parts[2]))
                    /\ console' = "System instruction set:"
               ELSE /\ system_prompt' = system_prompt
                    /\ console' = "Usage: /system TEXT"
        /\ UNCHANGED <<model, last_reply, history, files, pc, derives>>
        /\ NoQuery
        /\ panels' = <<>>

\* Lines 152-154 and 32-45: a plain line enters gemini_query, which builds
\* its payload.
Prompt ==
    \E raw \in LinesOf["prompt"] :
        /\ Len(history) < MaxHist
        /\ Reads(raw, "prompt")
        /\ pc' = "query"
        /\ console' = "Thinking..."
        /\ panels' = <<>>
        /\ attempt' = 1
        /\ requests' = 0
        /\ delays' = 0
        /\ transient' = TRUE
        /\ response' = NoResponse
        /\ reply' = NoReply
        /\ data' = [contents |-> content(user_input', system_prompt)]
        /\ sent' = NoData
        /\ before' = <<history, last_reply>>
        /\ UNCHANGED <<session, files, derives>>

\* Record putting the new exchange at the front of history.
Record_Prepends(r, shown) ==
    IF Truthy(r)
    THEN /\ console' = "Gemini Reply"
         /\ last_reply' = r
         /\ history' = <<<<user_input, r[1]>>>> \o history
    ELSE /\ console' = shown
         /\ UNCHANGED <<last_reply, history>>

\* Record treating the sentinel as a failure, not as a reply.
Record_SkipsSentinel(r, shown) ==
    IF Truthy(r) /\ r # Some(Sentinel)
    THEN /\ console' = "Gemini Reply"
         /\ last_reply' = r
         /\ history' = Append(history, <<user_input, r[1]>>)
    ELSE /\ console' = shown
         /\ UNCHANGED <<last_reply, history>>

\* Lines 156-159: what the loop does with the value r gemini_query returned,
\* the console showing shown when it returns.
Record(r, shown) ==
    IF Truthy(r)
    THEN /\ console' = "Gemini Reply"
         /\ last_reply' = r
         /\ history' = Append(history, <<user_input, r[1]>>)
    ELSE /\ console' = shown
         /\ UNCHANGED <<last_reply, history>>

\* Lines 45-65 and 154-159: one pass of the retry loop. The request is sent
\* and answered by resp; the pass sleeps and goes round again, or returns to
\* main, which records the reply, or raises, which nothing in main catches.
Attempt ==
    \E resp \in Responses :
        /\ pc = "query"
        /\ requests' = requests + 1
        /\ sent' = data
        /\ response' = resp
        /\ LET out == Outcomes[resp, attempt, derives]
               shown == Printed(resp, console, derives)
           IN  CASE out.kind = "continue" ->
                        /\ delays' = delays + 1
                        /\ attempt' = attempt + 1
                        /\ transient' = (transient /\ Class(resp) \in {"transport", "5xx"})
                        /\ console' = shown
                        /\ UNCHANGED <<pc, reply, last_reply, history>>
                 [] out.kind = "return" ->
                        /\ reply' = out
                        /\ pc' = "prompt"
                        /\ Record(out.val, shown)
                        /\ UNCHANGED <<delays, attempt, transient>>
                 [] out.kind = "raise" ->
                        /\ reply' = out
                        /\ pc' = "crashed"
                        /\ console' = "Traceback"
                        /\ UNCHANGED <<delays, attempt, transient, last_reply, history>>
        /\ UNCHANGED <<model, system_prompt, files, user_input, panels, derives, data, before>>

Next ==
    \/ Exit
    \/ Help
    \/ Model
    \/ Save
    \/ Export
    \/ History
    \/ System
    \/ Prompt
    \/ Attempt

Spec == Init /\ [][Next]_vars

(* ------------------------------- claims -------------------------------- *)

\* A status-200 response whose body has the whole expected shape.
WellFormed(resp) ==
    ~resp.exc /\ resp.status = 200 /\ resp.body.json /\ resp.body.end = "text"

\* A response that ended in a transport failure or a 5xx status.
Transient(resp) == Class(resp) \in {"transport", "5xx"}

\* C1, as stated: when attempts 1..k-1 each ended in a 5xx status or a
\* transport failure and attempt k returns 200 with a well-formed body, the
\* call returns the text of that body, as the body carries it, after exactly
\* k requests.
C1_ReturnsBodyText ==
    /\ (requests >= 1 /\ requests < Retries /\ Transient(response))
            => (pc = "query" /\ attempt = requests + 1)
    /\ (WellFormed(response) /\ transient)
            => /\ pc = "prompt"
               /\ reply = Return(Some(response.body.text))
               /\ requests = attempt

\* C1, amended: a 5xx status or a transport failure before the budget is
\* spent is followed by another attempt, and when attempts 1..k-1 each ended
\* that way and attempt k returns 200 with a well-formed body, the call
\* returns the text of that body with leading and trailing whitespace
\* stripped, after exactly k requests.
C1_RetrySucceeds ==
    /\ (requests >= 1 /\ requests < Retries /\ Transient(response))
            => (pc = "query" /\ attempt = requests + 1)
    /\ (WellFormed(response) /\ transient)
            => /\ pc = "prompt"
               /\ reply = Return(Some(Strip(response.body.text)))
               /\ requests = attempt
               /\ requests <= Retries

\* Two failed attempts, then a 200 whose text comes back stripped.
C1_Witness ==
    /\ requests = Retries
    /\ transient
    /\ WellFormed(response)
    /\ response.body.text = " a "
    /\ reply = Return(Some("a"))

\* C2: an attempt that receives a status in 400..499 ends the call there with
\* None, whatever budget remains: no further request is made for that prompt,
\* and a first response of 400 means exactly one request.
C2_ClientErrorNotRetried ==
    Class(response) = "4xx"
        => /\ pc = "prompt"
           /\ reply = Return(None)
           /\ requests = attempt
           /\ delays = requests - 1

\* A 400 on the first attempt: one request, no delay, None returned.
C2_Witness ==
    /\ response.status = 400
    /\ requests = 1
    /\ attempt = 1
    /\ reply = Return(None)
    /\ pc = "prompt"

\* C3: when all Retries attempts end in a 5xx status or a transport failure,
\* the call returns None after exactly Retries requests (never earlier), and
\* history and last_reply are what they were before the prompt.
C3_RetriesExhausted ==
    /\ (Transient(response) /\ pc # "query") => requests = Retries
    /\ (requests = Retries /\ Transient(response) /\ transient)
            => /\ pc = "prompt"
               /\ reply = Return(None)
               /\ history = before[1]
               /\ last_reply = before[2]

\* A third 5xx in a session that already holds an exchange.
C3_Witness ==
    /\ requests = Retries
    /\ transient
    /\ response.status = 599
    /\ reply = Return(None)
    /\ Len(history) = 1
    /\ last_reply # None

\* C4, as stated: whatever the responses, a call makes at most Retries
\* requests and then returns to the command loop, having slept once less than
\* it sent requests.
C4_BoundedRetryReturns ==
    /\ requests <= Retries
    /\ (requests >= 1 /\ pc # "query") => (pc = "prompt" /\ delays = requests - 1)

\* The part of C4 that holds whatever the responses: at most Retries requests,
\* and one delay less than requests once the call has ended either way.
C4_RequestsBounded ==
    /\ requests <= Retries
    /\ (requests >= 1 /\ pc # "query") => delays = requests - 1
    /\ pc = "query" => delays = requests

\* C5, as stated: the call goes on to another attempt only after a transport
\* failure or a 5xx status; a 200 whose body cannot be parsed ends the call.
C5_RetryOnlyTransient ==
    /\ (pc = "query" /\ requests >= 1) => Transient(response)
    /\ (response.status = 200 /\ ~WellFormed(response)) => pc # "query"

\* C6: a status-200 JSON body that lacks a key or an index anywhere on the
\* path candidates[0].content.parts[0].text makes the call return the sentinel
\* text: not None and not a raised error.
C6_SentinelOnMalformed ==
    (~response.exc /\ response.status = 200 /\ response.body.json
        /\ response.body.end = "missing")
        => /\ pc = "prompt"
           /\ reply = Return(Some(Sentinel))
           /\ requests = attempt

\* A body with an empty candidates list, answered by the sentinel.
C6_Witness ==
    /\ response.status = 200
    /\ response.body.json
    /\ response.body.end = "missing"
    /\ response.body.depth = 1
    /\ reply = Return(Some(Sentinel))
    /\ pc = "prompt"

\* C7: set_model with a supported name makes it the active model, with any
\* other name it leaves the model as it was, and either way the system
\* instruction, last_reply and history stay; the active model is always one
\* of the two supported names.
C7_SetModel ==
    /\ [](model \in supported_models)
    /\ [][(pc = "prompt" /\ Parsed[user_input'].cmd = "/model"
                /\ Len(Parsed[user_input'].parts) = 2)
            => LET model_name == Strip(Parsed[user_input'].parts[2])
               IN  /\ model_name \in {"gemini-1.5-flash", "gemini-1.5-pro"}
                        => model' = model_name
                   /\ model_name \notin {"gemini-1.5-flash", "gemini-1.5-pro"}
                        => model' = model
                   /\ UNCHANGED <<system_prompt, last_reply, history>>]_vars

\* The second supported model selected in a session that has state to keep.
C7_Witness ==
    /\ user_input = "/model gemini-1.5-pro"
    /\ model = "gemini-1.5-pro"
    /\ system_prompt # None
    /\ Len(history) >= 1

\* C8, as stated: last_reply is non-null only after a successful exchange,
\* and history grows by one exactly when a plain prompt's query returns a
\* reply, so its length counts those exchanges.
C8_HistoryCountsExchanges ==
    /\ [](last_reply # None => Len(history) >= 1)
    /\ [][IF pc = "query" /\ reply'.kind = "return" /\ reply'.val # None
          THEN Len(history') = Len(history) + 1
          ELSE Len(history') = Len(history)]_vars

\* C9, as stated: a non-null result r, the empty string included, becomes
\* last_reply and the pair (p, r) is appended to history; on None both stay.
C9_RecordsEveryReply ==
    (pc = "prompt" /\ reply.kind = "return")
        => IF reply.val # None
           THEN /\ last_reply = reply.val
                /\ history = Append(before[1], <<user_input, reply.val[1]>>)
           ELSE /\ history = before[1]
                /\ last_reply = before[2]

\* C10: '/save F' with a reply present leaves F holding last_reply, the reply
\* of the latest exchange, in place of what F held, unless the write fails;
\* with no reply yet it touches no file; in every case the session is
\* unchanged and the loop goes on.
C10_Save ==
    [][(pc = "prompt" /\ Parsed[user_input'].cmd = "/save"
            /\ Len(Parsed[user_input'].parts) = 2)
        => LET filename == Strip(Parsed[user_input'].parts[2])
           IN  /\ UNCHANGED <<model, system_prompt, last_reply, history>>
               /\ pc' = "prompt"
               /\ \A f \in FileNames \ {filename} : files'[f] = files[f]
               /\ IF last_reply = None
                  THEN files' = files /\ console' = "No reply to save yet."
                  ELSE \/ /\ console' = "Reply saved to"
                          /\ files'[filename] = last_reply
                          /\ files'[filename] = Some(history[Len(history)][2])
                       \/ /\ console' = "Error saving file:"
                          /\ files'[filename] \in {files[filename], Some("")}]_vars

\* The second of two different replies saved over an export of the first.
C10_Witness ==
    /\ user_input = "/save out.txt"
    /\ console = "Reply saved to"
    /\ Len(history) = 2
    /\ history[1][2] # history[2][2]
    /\ files["out.txt"] = Some(history[2][2])
    /\ last_reply = Some(history[2][2])

\* The text of a file holding one block per exchange of h, oldest first.
RECURSIVE Chronicle(_)
Chronicle(h) ==
    IF h = <<>> THEN ""
    ELSE "USER: " \o Head(h)[1] \o "\nGEMINI: " \o Head(h)[2] \o "\n\n" \o Chronicle(Tail(h))

\* C11: '/export F' leaves F holding one block per recorded exchange, oldest
\* first (nothing when history is empty), in place of what F held, unless the
\* write fails, which is reported; no other file is touched, history and the
\* rest of the session are unchanged and the loop goes on.
C11_Export ==
    [][(pc = "prompt" /\ Parsed[user_input'].cmd = "/export"
            /\ Len(Parsed[user_input'].parts) = 2)
        => LET filename == Strip(Parsed[user_input'].parts[2])
           IN  /\ UNCHANGED <<model, system_prompt, last_reply, history>>
               /\ pc' = "prompt"
               /\ \A f \in FileNames \ {filename} : files'[f] = files[f]
               /\ \/ /\ console' = "Conversation exported to"
                     /\ files'[filename] = Some(Chronicle(history))
                  \/ console' = "Error exporting file:"]_vars

\* Two different exchanges exported, in their order, to a file.
C11_Witness ==
    /\ user_input = "/export out.txt"
    /\ console = "Conversation exported to"
    /\ Len(history) = 2
    /\ history[1] # history[2]
    /\ files["out.txt"] = Some(Chronicle(history))

\* C12: an accepted '/system T' makes T the system instruction and nothing
\* else changes it; every request of a query carries the prompt alone when
\* no instruction is set, and otherwise the block carrying the instruction
\* followed by the prompt; every retry sends what the attempt before it sent.
C12_SystemPayload ==
    [][LET accepted == /\ pc = "prompt"
                       /\ Parsed[user_input'].cmd = "/system"
                       /\ Len(Parsed[user_input'].parts) = 2
       IN  /\ accepted => system_prompt' = Some(Strip(Parsed[user_input'].parts[2]))
           /\ ~accepted => system_prompt' = system_prompt
           /\ pc = "query"
                => /\ requests' = requests + 1
                   /\ sent'.contents =
                        IF system_prompt = None
                        THEN <<user_input>>
                        ELSE <<"[SYSTEM]: " \o system_prompt[1], user_input>>
                   /\ requests >= 1 => sent' = sent]_vars

\* The third request of a query made after '/system Be brief'.
C12_Witness ==
    /\ requests = 3
    /\ user_input = "/foo"
    /\ sent.contents = <<"[SYSTEM]: Be brief", "/foo">>

\* C13: '/model', '/save', '/export' and '/system' entered with no argument
\* show their usage line and change nothing: the model, the system
\* instruction, last_reply, history and every file stay as they were, and the
\* loop is back at its prompt with no request made.
C13_MissingArgument ==
    [][(/\ pc = "prompt"
        /\ Parsed[user_input'].cmd \in {"/model", "/save", "/export", "/system"}
        /\ Len(Parsed[user_input'].parts) # 2)
        => /\ UNCHANGED <<model, system_prompt, last_reply, history, files>>
           /\ pc' = "prompt"
           /\ requests' = 0
           /\ sent' = NoData
           /\ console' \in {"Usage: /model MODEL_NAME", "Usage: /save filename.txt",
                            "Usage: /export filename.txt", "Usage: /system TEXT"}]_vars

\* '/system' with no argument entered in a session that has an instruction,
\* a reply and a written file to lose.
C13_Witness ==
    /\ user_input = "/system"
    /\ console = "Usage: /system TEXT"
    /\ system_prompt = Some("Be brief")
    /\ last_reply # None
    /\ files["out.txt"] # None

\* C14, as stated: no response to a prompt and no file-write failure ends the
\* command loop; a pass of the retry loop goes round again or returns to the
\* prompt, and '/save' and '/export' leave the loop at its prompt.
C14_NoCrashPaths ==
    [][/\ pc = "query" => pc' \in {"query", "prompt"}
       /\ (pc = "prompt" /\ Parsed[user_input'].cmd \in {"/save", "/export"})
            => pc' = "prompt"]_vars

\* C15, as stated: a query is under way, or has made requests, only for a
\* line that is not empty after trimming.
C15_OnlyNonEmptyPrompts ==
    (pc = "query" \/ requests >= 1) => user_input # ""

\* The stripped lines that equal exit or quit when case is ignored.
ExitWords == {u \in Inputs : Lower(u) \in {"exit", "quit"}}

\* C16: a line that is exit or quit, in any case, ends the loop with the
\* session and every file as they were and no request made; no other line
\* ends it, 'exit now' included; and once the loop has ended no step is taken.
C16_Exit ==
    [][/\ (pc = "prompt" /\ user_input' \in ExitWords)
            => /\ pc' = "exited"
               /\ UNCHANGED <<model, system_prompt, last_reply, history, files>>
               /\ requests' = 0
               /\ sent' = NoData
       /\ (pc = "prompt" /\ user_input' \notin ExitWords) => pc' # "exited"
       /\ pc = "query" => pc' # "exited"
       /\ pc # "exited"]_vars

\* The loop ended by ' QUIT ' in a session with an exchange and an instruction.
C16_Witness ==
    /\ pc = "exited"
    /\ user_input = "QUIT"
    /\ Len(history) >= 1
    /\ system_prompt # None

\* C17: '/help', '/history', '/save' and '/export' leave the model, the
\* system instruction, last_reply and history as they were and make no
\* request; '/history' prints one panel per exchange, in history order, the
\* i-th titled i and showing the i-th prompt and reply.
C17_ReadOnly ==
    [][/\ (pc = "prompt"
            /\ Parsed[user_input'].cmd \in {"/help", "/history", "/save", "/export"})
            => /\ UNCHANGED <<model, system_prompt, last_reply, history>>
               /\ pc' = "prompt"
               /\ requests' = 0
               /\ sent' = NoData
       /\ (pc = "prompt" /\ Parsed[user_input'].cmd = "/history")
            => /\ Len(panels') = Len(history)
               /\ \A i \in 1..Len(history) :
                    /\ panels'[i].title = i
                    /\ panels'[i].you = history[i][1]
                    /\ panels'[i].gemini = history[i][2]]_vars

\* '/history' listing two different exchanges.
C17_Witness ==
    /\ user_input = "/history"
    /\ Len(history) = 2
    /\ history[1] # history[2]
    /\ Len(panels) = 2
    /\ panels[1].title = 1 /\ panels[1].you = history[1][1]
    /\ panels[2].title = 2 /\ panels[2].gemini = history[2][2]

\* C18: when a query returns the sentinel, last_reply becomes the sentinel
\* and the pair (prompt, sentinel) is appended to history; from then on a
\* '/save F' that succeeds leaves the sentinel in F, and a '/export F' that
\* succeeds leaves in F, at its place among the blocks, the block of every
\* exchange whose reply is the sentinel.
C18_SentinelRecorded ==
    /\ []((pc = "prompt" /\ reply = Return(Some(Sentinel)))
            => /\ last_reply = Some(Sentinel)
               /\ history = Append(before[1], <<user_input, Sentinel>>))
    /\ [][(pc = "prompt" /\ Parsed[user_input'].cmd \in {"/save", "/export"}
                /\ Len(Parsed[user_input'].parts) = 2)
            => LET filename == Strip(Parsed[user_input'].parts[2])
               IN  /\ (last_reply = Some(Sentinel) /\ console' = "Reply saved to")
                        => files'[filename] = Some(Sentinel)
                   /\ console' = "Conversation exported to"
                        => \A i \in 1..Len(history) :
                             history[i][2] = Sentinel
                                => files'[filename] =
                                     Some(Chronicle(SubSeq(history, 1, i - 1))
                                          \o "USER: " \o history[i][1]
                                          \o "\nGEMINI: " \o Sentinel \o "\n\n"
                                          \o Chronicle(SubSeq(history, i + 1, Len(history))))]_vars

\* The sentinel, recorded as the reply of the latest exchange, saved to a file.
C18_Witness ==
    /\ user_input = "/save out.txt"
    /\ console = "Reply saved to"
    /\ last_reply = Some(Sentinel)
    /\ Len(history) >= 1
    /\ history[Len(history)][2] = Sentinel
    /\ files["out.txt"] = Some(Sentinel)

\* C19: last_reply is None exactly when history is empty and is otherwise
\* the reply of the last exchange of history; every step leaves history as
\* it was or extends it at its end.
C19_LastReplyTiedToHistory ==
    /\ [](/\ last_reply = None <=> history = <<>>
          /\ history # <<>> => last_reply = Some(history[Len(history)][2]))
    /\ [][/\ Len(history') >= Len(history)
          /\ SubSeq(history', 1, Len(history)) = history]_vars

\* Two exchanges with different replies, the second being last_reply.
C19_Witness ==
    /\ pc = "prompt"
    /\ reply.kind = "return"
    /\ Len(history) = 2
    /\ history[1][2] # history[2][2]
    /\ last_reply = Some(history[2][2])

\* The six command prefixes, in the order the loop tests them.
Prefixes == <<"/help", "/model", "/save", "/export", "/history", "/system">>

\* What each command may show when it is done.
Shows ==
    [p \in {Prefixes[i] : i \in 1..Len(Prefixes)} |->
        CASE p = "/help" -> {"Available Commands"}
          [] p = "/model" -> {"Switched to model:", "Unsupported model.",
                              "Usage: /model MODEL_NAME"}
          [] p = "/save" -> {"Reply saved to", "Error saving file:",
                             "No reply to save yet.", "Usage: /save filename.txt"}
          [] p = "/export" -> {"Conversation exported to", "Error exporting file:",
                               "Usage: /export filename.txt"}
          [] p = "/history" -> {"No history yet.", "Exchange"}
          [] p = "/system" -> {"System instruction set:", "Usage: /system TEXT"}]

\* For each stripped line, the first of the six prefixes it starts with, or
\* "" when it starts with none.
FirstPrefix ==
    [u \in Inputs |->
        LET hits == {i \in 1..Len(Prefixes) : StartsWith(u, Prefixes[i])}
        IN  IF hits = {} THEN ""
            ELSE Prefixes[CHOOSE i \in hits : \A j \in hits : i <= j]]

\* C20: a line that is not exit or quit and starts with one of the six
\* prefixes is handled as the first such command, whatever follows the
\* prefix, and makes no request; every other line that is not exit or quit,
\* '/foo' included, enters the query as its prompt, and each request of that
\* query carries it as the last block.
C20_Dispatch ==
    [][/\ (pc = "prompt" /\ user_input' \notin ExitWords)
            => IF FirstPrefix[user_input'] # ""
               THEN /\ console' \in Shows[FirstPrefix[user_input']]
                    /\ pc' = "prompt"
                    /\ requests' = 0
                    /\ sent' = NoData
               ELSE /\ pc' = "query"
                    /\ data'.contents[Len(data'.contents)] = user_input'
       /\ pc = "query"
            => /\ FirstPrefix[user_input] = ""
               /\ requests' = requests + 1
               /\ sent'.contents[Len(sent'.contents)] = user_input]_vars

\* '/history of Rome' handled as '/history' in a session with an exchange.
C20_Witness ==
    /\ user_input = "/history of Rome"
    /\ console = "Exchange"
    /\ Len(panels) >= 1
    /\ pc = "prompt"
    /\ requests = 0

====
